---- MODULE Spec2Model ----
(***************************************************************************)
(* A model of WikiGameLLMBot (src/llmBot.py): construction of a session,   *)
(* play_game's loop and take_turn, with the encyclopedia service and the   *)
(* language model as environment inputs.  Article titles and model replies *)
(* are strings, modelled as sequences of one-character strings.            *)
(***************************************************************************)
EXTENDS Integers, Sequences, FiniteSets, TLC

VARIABLES
    pc,              \* "new", "assert_failed", "constructed", "loop", "fault"
    start_topic,     \* self.start_topic
    target_topic,    \* self.target_topic
    game_log,        \* self.game_log: a dict of parallel lists
    current_summary, \* self.current_summary
    verbose,         \* play_game's parameter
    turn_num,        \* play_game's local turn_num
    current_topic,   \* play_game's local current_topic
    visited,         \* play_game's local visited
    next_topic,      \* play_game's local next_topic (take_turn's return value)
    links,           \* validate_pages(current_page) of the last turn
    pages,           \* take_turn's local pages (the candidate links)
    response,        \* response.content of the last model call
    proposedPage,    \* take_turn's local proposedPage
    llm_calls        \* number of self.llm.invoke calls made in the last turn

vars == <<pc, start_topic, target_topic, game_log, current_summary, verbose,
          turn_num, current_topic, visited, next_topic, links, pages,
          response, proposedPage, llm_calls>>

-----------------------------------------------------------------------------
(* Bounds of the model *)

MaxTurns == 3

(* The candidate cut-off of take_turn: pages[:25] *)
MaxCandidates == 25

-----------------------------------------------------------------------------
(* Python values held by current_topic / next_topic / visited *)

None == [none |-> TRUE]
Str(t) == [str |-> t]
Tuple(t, c) == [topic |-> t, conf |-> c]
IsStr(v) == DOMAIN v = {"str"}
IsTuple(v) == DOMAIN v = {"topic", "conf"}

(* Characters in code point order: '=' < 'N' < 'a' < 'b' < 'c' *)
CharOrder == <<"=", "N", "a", "b", "c">>
Ord(ch) == CHOOSE i \in 1..Len(CharOrder) : CharOrder[i] = ch

Letters == <<"a", "b", "c">>

(* The article titles of the encyclopedia: the 27 three-letter titles *)
AllTitles ==
    [i \in 1..27 |-> << Letters[((i - 1) \div 9) + 1],
                        Letters[(((i - 1) \div 3) % 3) + 1],
                        Letters[((i - 1) % 3) + 1] >>]

Reverse(s) == [i \in 1..Len(s) |-> s[Len(s) + 1 - i]]

(* What search_wiki / get_random_wiki_page may resolve a topic to *)
ResolvedTopics == {AllTitles[1], AllTitles[2], AllTitles[27]}

(* What validate_pages may return for a page: distinct titles, in order *)
LinkLists ==
    { SubSeq(AllTitles, w[1], w[2]) :
        w \in {<<1, 0>>, <<1, 3>>, <<2, 5>>, <<25, 27>>, <<1, 27>>} }
    \cup {Reverse(AllTitles)}

(* What get_page_summary returns for the page of a topic *)
get_page_summary(topic) == [summary_of |-> topic]

(* What the language model may reply *)
Proposals ==
    { <<"a", "a", "c">>, <<"a", "b">>, <<"c", "c">>, <<"a", "b", "=", "c">>,
      <<"b", "N", "b">>, <<>> }
Replies ==
    { <<"N", "=">> \o p : p \in Proposals } \cup { <<>>, <<"N", "a", "a", "c">> }

-----------------------------------------------------------------------------
(* str.split(sep): the segments of s between the occurrences of sep *)

RECURSIVE SplitFrom(_, _, _, _)
SplitFrom(s, sep, i, cur) ==
    IF i > Len(s) THEN <<cur>>
    ELSE IF s[i] = sep THEN <<cur>> \o SplitFrom(s, sep, i + 1, <<>>)
    ELSE SplitFrom(s, sep, i + 1, Append(cur, s[i]))

Split(s, sep) == SplitFrom(s, sep, 1, <<>>)

(* Python's order on strings: lexicographic by code point *)
RECURSIVE StrLessFrom(_, _, _)
StrLessFrom(s, t, i) ==
    IF i > Len(t) THEN FALSE
    ELSE IF i > Len(s) THEN TRUE
    ELSE IF s[i] # t[i] THEN Ord(s[i]) < Ord(t[i])
    ELSE StrLessFrom(s, t, i + 1)

StrLess(s, t) == StrLessFrom(s, t, 1)

-----------------------------------------------------------------------------
(* difflib.SequenceMatcher (no junk; ranges are lo inclusive, hi exclusive) *)

RECURSIVE RunLen(_, _, _, _, _, _)
RunLen(a, b, i, j, ahi, bhi) ==
    IF i < ahi /\ j < bhi /\ a[i] = b[j]
    THEN 1 + RunLen(a, b, i + 1, j + 1, ahi, bhi)
    ELSE 0

(* find_longest_match's scan, for one position i of a, of the positions j.. *)
(* of b: the first block strictly longer than best replaces it.             *)
RECURSIVE LongestInRow(_, _, _, _, _, _, _)
LongestInRow(a, b, i, j, ahi, bhi, best) ==
    IF j >= bhi THEN best
    ELSE LET k == RunLen(a, b, i, j, ahi, bhi)
         IN  LongestInRow(a, b, i, j + 1, ahi, bhi,
                          IF k > best[3] THEN <<i, j, k>> ELSE best)

(* find_longest_match's scan of the positions i.. of a, in order *)
RECURSIVE LongestFrom(_, _, _, _, _, _, _)
LongestFrom(a, b, i, ahi, blo, bhi, best) ==
    IF i >= ahi THEN best
    ELSE LongestFrom(a, b, i + 1, ahi, blo, bhi,
                     LongestInRow(a, b, i, blo, ahi, bhi, best))

(* The longest matching block of a[alo..ahi) and b[blo..bhi): of the longest, *)
(* the one starting earliest in a, and of those the earliest in b.            *)
find_longest_match(a, b, alo, ahi, blo, bhi) ==
    LongestFrom(a, b, alo, ahi, blo, bhi, <<alo, blo, 0>>)

(* The total size of get_matching_blocks() *)
RECURSIVE matches(_, _, _, _, _, _)
matches(a, b, alo, ahi, blo, bhi) ==
    LET m == find_longest_match(a, b, alo, ahi, blo, bhi)
        i == m[1]
        j == m[2]
        k == m[3]
    IN  IF k = 0 THEN 0
        ELSE k
             + (IF alo < i /\ blo < j THEN matches(a, b, alo, i, blo, j) ELSE 0)
             + (IF i + k < ahi /\ j + k < bhi
                THEN matches(a, b, i + k, ahi, j + k, bhi) ELSE 0)

(* SequenceMatcher(a, b).ratio() as the fraction <<numerator, denominator>> *)
ratio(a, b) ==
    IF Len(a) + Len(b) = 0 THEN <<1, 1>>
    ELSE <<2 * matches(a, b, 1, Len(a) + 1, 1, Len(b) + 1), Len(a) + Len(b)>>

(* SequenceMatcher(a, b).real_quick_ratio(): an upper bound from the lengths *)
real_quick_ratio(a, b) ==
    IF Len(a) + Len(b) = 0 THEN <<1, 1>>
    ELSE <<2 * (IF Len(a) <= Len(b) THEN Len(a) ELSE Len(b)), Len(a) + Len(b)>>

(* The elements of a[i..] that are still available in the multiset avail *)
RECURSIVE QuickMatches(_, _, _)
QuickMatches(a, i, avail) ==
    IF i > Len(a) THEN 0
    ELSE IF avail[a[i]] > 0
         THEN 1 + QuickMatches(a, i + 1, [avail EXCEPT ![a[i]] = @ - 1])
         ELSE QuickMatches(a, i + 1, avail)

(* SequenceMatcher(a, b).quick_ratio(): an upper bound from the multisets *)
quick_ratio(a, b) ==
    LET fullbcount ==
            [ch \in {CharOrder[n] : n \in 1..Len(CharOrder)} |->
                Cardinality({n \in 1..Len(b) : b[n] = ch})]
    IN  IF Len(a) + Len(b) = 0 THEN <<1, 1>>
        ELSE <<2 * QuickMatches(a, 1, fullbcount), Len(a) + Len(b)>>

(* r >= cutoff, for difflib's default cutoff 0.6 *)
AtLeastCutoff(r) == 10 * r[1] >= 6 * r[2]

(* (score, x) tuples as heapq.nlargest compares them *)
ScoredLess(r1, x1, r2, x2) ==
    \/ r1[1] * r2[2] < r2[1] * r1[2]
    \/ r1[1] * r2[2] = r2[1] * r1[2] /\ StrLess(x1, x2)

(* The best (score, x) among possibilities[i..] scoring at least the cutoff, *)
(* as max() over the result list finds it: the first of the greatest.       *)
RECURSIVE BestFrom(_, _, _, _)
BestFrom(word, possibilities, i, best) ==
    IF i > Len(possibilities) THEN best
    ELSE LET x == possibilities[i]
             r == ratio(x, word)
         IN  IF /\ AtLeastCutoff(real_quick_ratio(x, word))
                /\ AtLeastCutoff(quick_ratio(x, word))
                /\ AtLeastCutoff(r)
                /\ (best = <<>> \/ ScoredLess(best[1], best[2], r, x))
             THEN BestFrom(word, possibilities, i + 1, <<r, x>>)
             ELSE BestFrom(word, possibilities, i + 1, best)

(* get_close_matches without its cutoff: the best match, however poor *)
RECURSIVE BestFromAny(_, _, _, _)
BestFromAny(word, possibilities, i, best) ==
    IF i > Len(possibilities) THEN best
    ELSE LET x == possibilities[i]
             r == ratio(x, word)
         IN  IF best = <<>> \/ ScoredLess(best[1], best[2], r, x)
             THEN BestFromAny(word, possibilities, i + 1, <<r, x>>)
             ELSE BestFromAny(word, possibilities, i + 1, best)

get_close_matches_nocutoff(word, possibilities) ==
    LET best == BestFromAny(word, possibilities, 1, <<>>)
    IN  IF best = <<>> THEN <<>> ELSE <<best[2]>>

(* difflib.get_close_matches(word, possibilities, n=1) *)
get_close_matches(word, possibilities) ==
    LET best == BestFrom(word, possibilities, 1, <<>>)
    IN  IF best = <<>> THEN <<>> ELSE <<best[2]>>

-----------------------------------------------------------------------------
(* WikiGameLLMBot *)

Min(x, y) == IF x <= y THEN x ELSE y
InSeq(x, s) == \E i \in 1..Len(s) : s[i] = x

(* self.game_log as __init__ creates it *)
EmptyLog ==
    [starting_topic |-> <<>>, target_topic |-> <<>>, turn |-> <<>>,
     current_topic |-> <<>>, current_summary |-> <<>>]

(* log_turn assigning where it should append *)
log_turn_assign(log, turn_dict) ==
    [key \in DOMAIN log |->
        IF key \in DOMAIN turn_dict THEN <<turn_dict[key]>> ELSE log[key]]

(* log_turn: append every value of turn_dict to the list of its key *)
log_turn(log, turn_dict) ==
    [key \in DOMAIN log |->
        IF key \in DOMAIN turn_dict
        THEN Append(log[key], turn_dict[key])
        ELSE log[key]]

(* __init__ without its assertion *)
AssertDistinct_missing(s, t) == TRUE

(* The assertion of __init__ *)
AssertDistinct(s, t) == s # t

(* Candidates cut one element too late *)
Candidates_offbyone(lk, vis) ==
    LET unvisited(page) == Str(page) \notin vis
        kept == SelectSeq(lk, unvisited)
    IN  SubSeq(kept, 1, Min(Len(kept), MaxCandidates + 1))

(* take_turn: the valid links of the page that are not visited, first 25 *)
Candidates(lk, vis) ==
    LET unvisited(page) == Str(page) \notin vis
        kept == SelectSeq(lk, unvisited)
    IN  SubSeq(kept, 1, Min(Len(kept), MaxCandidates))

(* The short-circuit test looking at the first candidate only *)
ShortCircuit_first(P, target) == Len(P) > 0 /\ P[1] = target

(* take_turn: the test that returns the target without asking the model *)
ShortCircuit(P, target) == InSeq(target, P)

(* take_turn(current_topic, visited), given what validate_pages returns (lk) *)
(* and what the model would reply (resp): the locals it sets, the number of *)
(* model calls, and either the value returned or the exception raised.      *)
take_turn(vis, lk, resp) ==
    LET P == Candidates(lk, vis)
    IN  IF ShortCircuit(P, target_topic)
        THEN [raised |-> "", ret |-> Tuple(target_topic, 1), pages |-> P,
              calls |-> 0, response |-> <<>>, proposedPage |-> <<>>]
        ELSE LET parts == Split(resp, "=")
             IN  IF Len(parts) < 2
                 THEN [raised |-> "IndexError", ret |-> None, pages |-> P,
                       calls |-> 1, response |-> resp, proposedPage |-> <<>>]
                 ELSE LET close == get_close_matches(parts[2], P)
                      IN  IF Len(close) < 1
                          THEN [raised |-> "IndexError", ret |-> None,
                                pages |-> P, calls |-> 1, response |-> resp,
                                proposedPage |-> parts[2]]
                          ELSE [raised |-> "", ret |-> Str(close[1]),
                                pages |-> P, calls |-> 1, response |-> resp,
                                proposedPage |-> parts[2]]

-----------------------------------------------------------------------------
Init ==
    /\ pc = "new"
    /\ start_topic = <<>>
    /\ target_topic = <<>>
    /\ game_log = EmptyLog
    /\ current_summary = None
    /\ verbose = FALSE
    /\ turn_num = 0
    /\ current_topic = None
    /\ visited = {}
    /\ next_topic = None
    /\ links = <<>>
    /\ pages = <<>>
    /\ response = <<>>
    /\ proposedPage = <<>>
    /\ llm_calls = 0

(* __init__: get_topics resolves both topics to s and t, then the assertion *)
WikiGameLLMBot_init(s, t) ==
    /\ pc = "new"
    /\ game_log' = EmptyLog
    /\ start_topic' = s
    /\ target_topic' = t
    /\ pc' = IF AssertDistinct(s, t) THEN "constructed" ELSE "assert_failed"
    /\ UNCHANGED <<current_summary, verbose, turn_num, current_topic, visited,
                   next_topic, links, pages, response, proposedPage, llm_calls>>

(* play_game up to the loop *)
play_game(v) ==
    /\ pc = "constructed"
    /\ verbose' = v
    /\ turn_num' = 1
    /\ current_topic' = Str(start_topic)
    /\ visited' = {}
    /\ pc' = "loop"
    /\ UNCHANGED <<start_topic, target_topic, game_log, current_summary,
                   next_topic, links, pages, response, proposedPage, llm_calls>>

(* One iteration of play_game's loop *)
play_game_turn(lk, resp) ==
    /\ pc = "loop"
    /\ turn_num <= MaxTurns
    /\ LET vis == visited \cup {current_topic}
           r == take_turn(vis, lk, resp)
       IN  /\ visited' = vis
           /\ current_summary' = get_page_summary(current_topic)
           /\ links' = lk
           /\ pages' = r.pages
           /\ llm_calls' = r.calls
           /\ response' = r.response
           /\ proposedPage' = r.proposedPage
           /\ IF r.raised # ""
              THEN /\ pc' = "fault"
                   /\ UNCHANGED <<next_topic, game_log, current_topic, turn_num>>
              ELSE /\ next_topic' = r.ret
                   /\ game_log' = log_turn(game_log,
                          [starting_topic |-> start_topic,
                           target_topic |-> start_topic,
                           turn |-> turn_num,
                           current_topic |-> current_topic,
                           current_summary |-> get_page_summary(current_topic)])
                   /\ IF verbose /\ (IsTuple(current_topic) \/ IsTuple(r.ret))
                      THEN /\ pc' = "fault"
                           /\ UNCHANGED <<current_topic, turn_num>>
                      ELSE /\ pc' = "loop"
                           /\ current_topic' = r.ret
                           /\ turn_num' = turn_num + 1
    /\ UNCHANGED <<start_topic, target_topic, verbose>>

(* An iteration whose page lookup raises: current_topic is not a title, and *)
(* what the encyclopedia client does with it is not defined.                *)
play_game_turn_lookup_fails ==
    /\ pc = "loop"
    /\ turn_num <= MaxTurns
    /\ IsTuple(current_topic)
    /\ visited' = visited \cup {current_topic}
    /\ pc' = "fault"
    /\ links' = <<>>
    /\ pages' = <<>>
    /\ response' = <<>>
    /\ proposedPage' = <<>>
    /\ llm_calls' = 0
    /\ UNCHANGED <<start_topic, target_topic, game_log, current_summary,
                   verbose, turn_num, current_topic, next_topic>>

Next ==
    \/ \E s \in ResolvedTopics, t \in ResolvedTopics : WikiGameLLMBot_init(s, t)
    \/ \E v \in BOOLEAN : play_game(v)
    \/ \E lk \in LinkLists, resp \in Replies : play_game_turn(lk, resp)
    \/ play_game_turn_lookup_fails

Spec == Init /\ [][Next]_vars

-----------------------------------------------------------------------------
(* Properties *)

AtLoop == pc = "loop"
Constructed == pc \in {"constructed", "loop", "fault"}
TurnRan == visited # {}
TargetInPages == \E i \in 1..Len(pages) : pages[i] = target_topic
NoDelimiter(s) == \A i \in 1..Len(s) : s[i] # "="
NothingClose(word, cands) ==
    \A i \in 1..Len(cands) : ~AtLeastCutoff(ratio(cands[i], word))
AfterFirstDelimiter(s) ==
    LET first == CHOOSE i \in 1..Len(s) :
                     s[i] = "=" /\ \A j \in 1..(i - 1) : s[j] # "="
    IN  SubSeq(s, first + 1, Len(s))
IsPrefix(s, t) == Len(s) <= Len(t) /\ SubSeq(t, 1, Len(s)) = s
NotVisited(page) == Str(page) \notin visited
TurnsStarted == IF pc = "fault" THEN turn_num ELSE turn_num - 1

(* C1: whenever the target topic is among the candidate links of a turn,    *)
(* take_turn returns the target with confidence 1 and the turn made no      *)
(* model call.                                                              *)
C1_ShortCircuitReturnsTarget ==
    (TurnRan /\ TargetInPages) =>
        (next_topic = Tuple(target_topic, 1) /\ llm_calls = 0)

C1_Witness ==
    /\ TurnRan
    /\ TargetInPages
    /\ Len(pages) > 1
    /\ pages[1] # target_topic
    /\ llm_calls = 0
    /\ next_topic = Tuple(target_topic, 1)

(* C2: once a turn's candidate links contain the target, the game loop has  *)
(* ended with that turn: play_game is not about to run another turn.        *)
C2_LoopEndsAtTarget == (TurnRan /\ TargetInPages) => ~AtLoop

(* C3: the candidate links of every turn contain no visited topic (the      *)
(* visited set holds the topic of the turn), are at most 25, and are the    *)
(* first unvisited links of the page in the order the service gave them.    *)
C3_CandidateSet ==
    TurnRan =>
        /\ Len(pages) <= MaxCandidates
        /\ \A i \in 1..Len(pages) : Str(pages[i]) \notin visited
        /\ (pc = "fault" => current_topic \in visited)
        /\ (AtLoop =>
               game_log.current_topic[Len(game_log.current_topic)] \in visited)
        /\ \E n \in 0..Len(links) :
              /\ pages = SelectSeq(SubSeq(links, 1, n), NotVisited)
              /\ (n = Len(links) \/ Len(pages) = MaxCandidates)

C3_Witness ==
    /\ TurnRan
    /\ Len(pages) = MaxCandidates
    /\ Cardinality({i \in 1..Len(links) : NotVisited(links[i])}) > MaxCandidates
    /\ Cardinality({i \in 1..Len(links) : ~NotVisited(links[i])}) > 0

(* C4: whenever a turn has completed, every field list of the game log has  *)
(* one entry per completed turn and the turn numbers are 1..N in order; no  *)
(* step changes or removes an entry already in the log.                     *)
LogShape ==
    /\ \A key \in DOMAIN game_log : Len(game_log[key]) = turn_num - 1
    /\ \A i \in 1..Len(game_log.turn) : game_log.turn[i] = i
C4_LogOneRecordPerTurn ==
    [][ /\ (pc' = "loop" => LogShape')
        /\ \A key \in DOMAIN game_log : IsPrefix(game_log[key], game_log'[key])
      ]_vars

C4_Witness == AtLoop /\ turn_num = 3 /\ Len(game_log.turn) = 2

(* C5: every record of the game log carries the session's start topic, the  *)
(* session's target topic and the topic processed in its turn.              *)
C5_RecordCarriesSessionTopics ==
    \A i \in 1..Len(game_log.turn) :
        /\ game_log.starting_topic[i] = start_topic
        /\ game_log.target_topic[i] = target_topic
        /\ game_log.current_topic[i] \in visited

(* C6: construction with equal resolved topics fails and nothing happens    *)
(* after it; a constructed session has distinct topics, and no step of a    *)
(* constructed session changes either of them.                              *)
C6_DistinctTopics ==
    [][ /\ pc # "assert_failed"
        /\ (start_topic' = target_topic' => pc' = "assert_failed")
        /\ (pc' \in {"constructed", "loop", "fault"} =>
               start_topic' # target_topic')
        /\ (Constructed =>
               start_topic' = start_topic /\ target_topic' = target_topic)
      ]_vars

C6_Witness == pc = "assert_failed" /\ start_topic = target_topic

(* C7: a turn that asked the model and got a reply without '=', or a        *)
(* proposal that no candidate matches closely enough (no candidate at all   *)
(* included), ends in a fault: no record is logged, current_topic and the   *)
(* turn counter stay as they were.                                          *)
C7_ParsingErrorIsAFault ==
    [][ ( /\ AtLoop
          /\ llm_calls' = 1
          /\ (NoDelimiter(response') \/ NothingClose(proposedPage', pages')) )
        => ( /\ pc' = "fault"
             /\ game_log' = game_log
             /\ current_topic' = current_topic
             /\ turn_num' = turn_num )
      ]_vars

C7_Witness ==
    /\ pc = "fault"
    /\ llm_calls = 1
    /\ ~NoDelimiter(response)
    /\ pages # <<>>
    /\ NothingClose(proposedPage, pages)
    /\ Len(game_log.turn) = turn_num - 1

(* C8: after every completed turn current_topic is an article title, a      *)
(* member of that turn's candidate links, and the target itself when the    *)
(* candidates contained the target.                                         *)
C8_CurrentTopicIsCandidate ==
    (AtLoop /\ turn_num > 1) =>
        /\ IsStr(current_topic)
        /\ \E i \in 1..Len(pages) : Str(pages[i]) = current_topic
        /\ (TargetInPages => current_topic = Str(target_topic))

(* C9: for a reply containing '=', the proposed topic is everything after   *)
(* the first '='.                                                           *)
C9_ProposalIsRemainder ==
    (llm_calls = 1 /\ ~NoDelimiter(response)) =>
        proposedPage = AfterFirstDelimiter(response)

(* C10: no topic is processed twice: at the start of a turn the current     *)
(* topic is not yet visited, visited has one element per turn started, and  *)
(* the logged current topics are all different.                             *)
C10_NoTopicTwice ==
    /\ (AtLoop => current_topic \notin visited)
    /\ (pc \in {"loop", "fault"} => Cardinality(visited) = TurnsStarted)
    /\ \A i, j \in 1..Len(game_log.current_topic) :
          i # j => game_log.current_topic[i] # game_log.current_topic[j]

====
